---- MODULE Spec2Model ----
(***************************************************************************)
(* The weekly pipeline of NFL_betting_model as a state machine over its    *)
(* files:                                                                  *)
(*   bridge_og_to_python.py        week CSVs     -> team_week_rich         *)
(*   build_model_table_enhanced.py schedule + team_week -> model_table     *)
(*   train_models_enhanced.py      model_table   -> margin/total models    *)
(*   predict_week_enhanced.py      models + model_table -> predictions     *)
(* A table is a record [cols, rows]: cols is the ordered list of column    *)
(* names (strings, as in pandas), rows is a sequence of functions from     *)
(* column name to cell.  Numeric cells are records so that NaN and the     *)
(* infinities are values of the same kind as numbers.                      *)
(***************************************************************************)
EXTENDS Integers, Sequences, FiniteSets, TLC

VARIABLES
    week_dirs,      \* week<WEEK>/ directories: offense_weekly.csv,
                    \* defense_weekly.csv, injuries_summary.csv of each
    sched_file,     \* data/raw/schedules.parquet
    team_week,      \* data/processed/team_week_rich.parquet, or Absent
    model_table,    \* data/processed/model_table_rich.parquet, or Absent
    margin_model,   \* db/margin_model_rich.joblib, or Absent
    total_model,    \* db/total_model_rich.joblib, or Absent
    importance,     \* reports/feature_importance_rich.csv, or Absent
    predictions,    \* reports/week_<S>_<W>_predictions_rich.csv, or Absent
    run             \* what the most recent script run did (its locals)

vars == <<week_dirs, sched_file, team_week, model_table,
          margin_model, total_model, importance, predictions, run>>

(***************************************************************************)
(* Cells                                                                   *)
(***************************************************************************)
\* a file that does not exist (os.path.exists is False)
Absent == [cols |-> <<"<absent>">>, rows |-> <<>>]

\* os.path.exists
exists(file) == file.cols # Absent.cols

NaN == [k |-> "nan", v |-> 0]

Num(n) == [k |-> "num", v |-> n]

\* np.inf (s = 1) and -np.inf (s = -1)
Inf(s) == [k |-> "inf", v |-> s]

\* a cell of an object column that holds text
Str == [k |-> "str", v |-> 0]

\* pandas notna(): only NaN is null, the infinities are not
notna(c) == c.k # "nan"

isna(c) == c.k = "nan"

\* float negation
Neg(a) ==
    IF a.k = "nan" THEN NaN
    ELSE IF a.k = "inf" THEN Inf(0 - a.v)
    ELSE Num(0 - a.v)

\* float addition: NaN propagates, inf + (-inf) is NaN
CellAdd(a, b) ==
    IF a.k = "nan" \/ b.k = "nan" THEN NaN
    ELSE IF a.k = "inf" /\ b.k = "inf" THEN (IF a.v = b.v THEN a ELSE NaN)
    ELSE IF a.k = "inf" THEN a
    ELSE IF b.k = "inf" THEN b
    ELSE Num(a.v + b.v)

\* float subtraction, a - b
CellSub(a, b) == CellAdd(a, Neg(b))

\* Series.fillna(x)
fillna(c, x) == IF isna(c) THEN x ELSE c

\* .replace([np.inf, -np.inf], np.nan)
replace_inf(c) == IF c.k = "inf" THEN NaN ELSE c

(***************************************************************************)
(* Strings and sequences                                                   *)
(***************************************************************************)
\* str.startswith
startswith(s, p) == Len(s) >= Len(p) /\ SubSeq(s, 1, Len(p)) = p

Range(s) == {s[i] : i \in DOMAIN s}

\* "x in df.columns"
HasCol(t, c) == c \in Range(t.cols)

RECURSIVE Flatten(_)
\* concatenation of a sequence of sequences
Flatten(ss) == IF ss = <<>> THEN <<>> ELSE Head(ss) \o Flatten(Tail(ss))

\* list comprehension [c for c in cols if c not in drop]
Without(cols, drop) == SelectSeq(cols, LAMBDA c : c \notin drop)

(***************************************************************************)
(* pandas operations                                                       *)
(***************************************************************************)
\* DataFrame.rename(columns=f): f maps an old name to its new name
rename(t, f(_)) ==
    LET old == [n \in {f(c) : c \in Range(t.cols)} |->
                   CHOOSE c \in Range(t.cols) : f(c) = n]
    IN  [cols |-> [i \in DOMAIN t.cols |-> f(t.cols[i])],
         rows |-> [i \in DOMAIN t.rows |-> [n \in DOMAIN old |-> t.rows[i][old[n]]]]]

\* the column names of left.merge(right, on=keys): a non-key name that is
\* on both sides gets _x on the left and _y on the right.  lname and rname
\* map a side's column to its name in the result, lcol and rcol map back
merge_names(l, r, on) ==
    LET overlap == (Range(l.cols) \ on) \cap (Range(r.cols) \ on)
        lname == [c \in Range(l.cols) |-> IF c \in overlap THEN c \o "_x" ELSE c]
        rname == [c \in Range(r.cols) \ on |-> IF c \in overlap THEN c \o "_y" ELSE c]
    IN  [lname |-> lname,
         rname |-> rname,
         lcol |-> [n \in {lname[c] : c \in DOMAIN lname} |->
                     CHOOSE c \in DOMAIN lname : lname[c] = n],
         rcol |-> [n \in {rname[c] : c \in DOMAIN rname} |->
                     CHOOSE c \in DOMAIN rname : rname[c] = n]]

\* the left's columns, then the right's non-key columns
merge_cols(l, r, on) ==
    LET nm == merge_names(l, r, on)
        rc == Without(r.cols, on)
    IN  [i \in DOMAIN l.cols |-> nm.lname[l.cols[i]]]
        \o [i \in DOMAIN rc |-> nm.rname[rc[i]]]

\* a side of a merge that has no row for the key
NoRow == [c \in {} |-> NaN]

\* one output row of a merge: lrow and rrow joined; a side that has no
\* row contributes NaN in its columns, the keys come from the side that
\* is there
merge_row(nm, on, lrow, rrow) ==
    [n \in DOMAIN nm.lcol \cup DOMAIN nm.rcol |->
        IF n \in DOMAIN nm.lcol
        THEN IF DOMAIN lrow # {} THEN lrow[nm.lcol[n]]
             ELSE IF nm.lcol[n] \in on THEN rrow[nm.lcol[n]]
             ELSE NaN
        ELSE IF DOMAIN rrow # {} THEN rrow[nm.rcol[n]] ELSE NaN]

\* merge_matches with week left out of the key
merge_matches_ignoring_week(r, on, lrow) ==
    SelectSeq(r.rows, LAMBDA rr : \A k \in on \ {"week"} : rr[k] = lrow[k])

\* rows of r with the key of lrow, in r's order
merge_matches(r, on, lrow) ==
    SelectSeq(r.rows, LAMBDA rr : \A k \in on : rr[k] = lrow[k])

\* merge_left as an inner join: a left row without a match is dropped
merge_left_inner(l, r, on) ==
    LET nm == merge_names(l, r, on)
    IN  [cols |-> merge_cols(l, r, on),
         rows |-> Flatten([i \in DOMAIN l.rows |->
                    LET m == merge_matches(r, on, l.rows[i])
                    IN  [j \in DOMAIN m |-> merge_row(nm, on, l.rows[i], m[j])]])]

\* left.merge(right, on=keys, how="left"): every left row, in the left's
\* order, once per matching right row, or once with NaN when none matches
merge_left(l, r, on) ==
    LET nm == merge_names(l, r, on)
    IN  [cols |-> merge_cols(l, r, on),
         rows |-> Flatten([i \in DOMAIN l.rows |->
                    LET m == merge_matches(r, on, l.rows[i])
                    IN  IF m = <<>>
                        THEN <<merge_row(nm, on, l.rows[i], NoRow)>>
                        ELSE [j \in DOMAIN m |-> merge_row(nm, on, l.rows[i], m[j])]])]

\* the rows in ascending order of lt; rows that compare equal keep their
\* order: row i lands after the rows smaller than it and the equal rows
\* before it
sort_rows(s, lt(_, _)) ==
    LET pos == [i \in DOMAIN s |->
                  1 + Cardinality({j \in DOMAIN s :
                        \/ lt(s[j], s[i])
                        \/ ~lt(s[i], s[j]) /\ j < i})]
    IN  [p \in DOMAIN s |-> s[CHOOSE i \in DOMAIN s : pos[i] = p]]

\* DataFrame.sort_values(["season", "week"])
sort_values_season_week(t) ==
    [cols |-> t.cols,
     rows |-> sort_rows(t.rows, LAMBDA a, b :
                 \/ a["season"] < b["season"]
                 \/ a["season"] = b["season"] /\ a["week"] < b["week"])]

\* team codes in alphabetical order: the order of Python strings
Roster == <<"ARI", "ATL", "BAL", "BUF", "CAR", "CHI", "CIN", "CLE", "DAL", "DEN",
            "DET", "GB", "HOU", "IND", "JAX", "KC", "LA", "LAC", "LAR", "LV",
            "MIA", "MIN", "NE", "NO", "NYG", "NYJ", "PHI", "PIT", "SEA", "SF",
            "TB", "TEN", "WAS">>

RosterRank == [t \in Range(Roster) |-> CHOOSE i \in DOMAIN Roster : Roster[i] = t]

team_rank(t) == RosterRank[t]

\* key order of the bridge's outer merge, on=['team', 'season', 'week']
team_week_key_lt(a, b) ==
    \/ team_rank(a["team"]) < team_rank(b["team"])
    \/ a["team"] = b["team"] /\ a["season"] < b["season"]
    \/ a["team"] = b["team"] /\ a["season"] = b["season"] /\ a["week"] < b["week"]

\* merge_outer as a left join: the rows only the right has are dropped
merge_outer_left_only(l, r, on) ==
    [cols |-> merge_cols(l, r, on),
     rows |-> sort_rows(merge_left(l, r, on).rows, team_week_key_lt)]

\* pd.merge(left, right, on=['team', 'season', 'week'], how='outer'): the
\* left merge plus the right rows no left row matches, keys sorted
merge_outer(l, r, on) ==
    LET right_only == SelectSeq(r.rows, LAMBDA rr :
                         \A i \in DOMAIN l.rows : \E k \in on : l.rows[i][k] # rr[k])
        nm == merge_names(l, r, on)
    IN  [cols |-> merge_cols(l, r, on),
         rows |-> sort_rows(merge_left(l, r, on).rows
                            \o [i \in DOMAIN right_only |->
                                  merge_row(nm, on, NoRow, right_only[i])],
                            team_week_key_lt)]

\* DataFrame with one column's cells mapped by f
map_col(t, col, f(_)) ==
    [cols |-> t.cols,
     rows |-> [i \in DOMAIN t.rows |->
                 [c \in DOMAIN t.rows[i] |->
                    IF c = col THEN f(t.rows[i][c]) ELSE t.rows[i][c]]]]

\* df[cols]: the listed columns, in the listed order
select_cols(t, cols) ==
    [cols |-> cols,
     rows |-> [i \in DOMAIN t.rows |-> [c \in Range(cols) |-> t.rows[i][c]]]]

\* df[name] = f(row): a new last column, or an existing one overwritten
assign_col(t, name, f(_)) ==
    [cols |-> IF name \in Range(t.cols) THEN t.cols ELSE Append(t.cols, name),
     rows |-> [i \in DOMAIN t.rows |-> (name :> f(t.rows[i])) @@ t.rows[i]]]

\* df[mask]: the rows that satisfy keep, in order
filter_rows(t, keep(_)) == [cols |-> t.cols, rows |-> SelectSeq(t.rows, keep)]

(***************************************************************************)
(* bridge_og_to_python.py                                                  *)
(***************************************************************************)
KeyCols == {"team", "season", "week"}

\* offense.rename(offense_cols), then off_ in front of every non-key column
offense_features(offense) ==
    rename(offense, LAMBDA c :
        IF c = "offense_team" THEN "team"
        ELSE IF c \in KeyCols THEN c
        ELSE "off_" \o c)

\* defense.rename(defense_cols), then def_ in front of every non-key column
defense_features(defense) ==
    rename(defense, LAMBDA c :
        IF c = "defense_team" THEN "team"
        ELSE IF c \in KeyCols THEN c
        ELSE "def_" \o c)

\* injuries[[...]] with .columns = ['team', 'week', 'injury_impact',
\* 'qb_out', 'players_out']
injury_features(injuries) ==
    rename(select_cols(injuries, <<"team", "week", "injury_impact_score",
                                   "qb_injuries", "out_count">>),
           LAMBDA c :
        IF c = "injury_impact_score" THEN "injury_impact"
        ELSE IF c = "qb_injuries" THEN "qb_out"
        ELSE IF c = "out_count" THEN "players_out"
        ELSE c)

\* rename_map, applied to the columns that are there
rename_map(c) ==
    IF c = "off_roll3_epa" THEN "off_epa_l3"
    ELSE IF c = "off_roll3_success_rate" THEN "off_sr_l3"
    ELSE IF c = "def_roll3_epa" THEN "def_epa_l3"
    ELSE IF c = "def_roll3_success_rate" THEN "def_sr_l3"
    ELSE c

\* the injury merge and its three fillna(0)
add_injuries(tw, injuries) ==
    LET m  == merge_left(tw, injury_features(injuries), {"team", "week"})
        f1 == map_col(m, "injury_impact", LAMBDA c : fillna(c, Num(0)))
        f2 == map_col(f1, "qb_out", LAMBDA c : fillna(c, Num(0)))
    IN  map_col(f2, "players_out", LAMBDA c : fillna(c, Num(0)))

\* the team-week table the bridge writes from one week directory
bridge_table(dir) ==
    LET merged == merge_outer(offense_features(dir.offense),
                              defense_features(dir.defense), KeyCols)
        with_inj == IF dir.injuries.rows # <<>>
                    THEN add_injuries(merged, dir.injuries)
                    ELSE merged
    IN  rename(with_inj, rename_map)

(***************************************************************************)
(* build_model_table_enhanced.py                                           *)
(***************************************************************************)
\* the null of a string column
NA == "<NA>"

\* str.upper on the game_type spellings of the schedule
str_upper(s) ==
    IF s = "reg" THEN "REG"
    ELSE IF s = "post" THEN "POST"
    ELSE s

\* is_regular without "" in the list: a missing game_type is not kept
is_regular_strict(row) ==
    str_upper(row["game_type"]) \in {"REG", "REGULAR", "REGULAR_SEASON"}

\* sched[game_type.fillna("").str.upper().isin([...])]
is_regular(row) ==
    str_upper(IF row["game_type"] = NA THEN "" ELSE row["game_type"])
        \in {"REG", "REGULAR", "REGULAR_SEASON", ""}

feature_bases ==
    <<"off_avg_epa_pass", "off_avg_epa_run", "off_success_rate",
      "def_avg_epa_per_play", "def_success_rate_allowed",
      "off_epa_l3", "off_sr_l3", "def_epa_l3", "def_sr_l3",
      "off_third_down_rate", "off_red_zone_td_rate", "off_two_min_td_rate",
      "def_third_down_rate", "def_turnover_rate",
      "off_plays_per_game",
      "injury_impact">>

\* tw.rename(columns={"team": "home_team", **home_cols})
home_rename(tw) ==
    rename(tw, LAMBDA c :
        IF c = "team" THEN "home_team"
        ELSE IF c \in KeyCols THEN c
        ELSE "home_" \o c)

\* away_rename with the prefix of the home side
away_rename_home_prefix(tw) ==
    rename(tw, LAMBDA c :
        IF c = "team" THEN "away_team"
        ELSE IF c \in KeyCols THEN c
        ELSE "home_" \o c)

\* tw.rename(columns={"team": "away_team", **away_cols})
away_rename(tw) ==
    rename(tw, LAMBDA c :
        IF c = "team" THEN "away_team"
        ELSE IF c \in KeyCols THEN c
        ELSE "away_" \o c)

\* delta_of with the operands zero-filled before the subtraction
delta_of_zero_fill(t, base) ==
    IF HasCol(t, "home_" \o base) /\ HasCol(t, "away_" \o base)
    THEN assign_col(t, "delta_" \o base,
                    LAMBDA r : CellSub(fillna(r["home_" \o base], Num(0)),
                                       fillna(r["away_" \o base], Num(0))))
    ELSE t

\* one pass of the delta loop
delta_of(t, base) ==
    IF HasCol(t, "home_" \o base) /\ HasCol(t, "away_" \o base)
    THEN assign_col(t, "delta_" \o base,
                    LAMBDA r : CellSub(r["home_" \o base], r["away_" \o base]))
    ELSE t

RECURSIVE add_deltas_short(_, _)
\* add_deltas stopping one base short of the end of the whitelist
add_deltas_short(t, i) ==
    IF i >= Len(feature_bases) THEN t
    ELSE add_deltas_short(delta_of(t, feature_bases[i]), i + 1)

RECURSIVE add_deltas(_, _)
\* the delta loop over feature_bases[i..]
add_deltas(t, i) ==
    IF i > Len(feature_bases) THEN t
    ELSE add_deltas(delta_of(t, feature_bases[i]), i + 1)

\* add_targets with the scores zero-filled in the total
add_targets_total_fill(t) ==
    assign_col(
        assign_col(t, "margin",
                   LAMBDA r : CellSub(r["home_score"], r["away_score"])),
        "total_points",
        LAMBDA r : CellAdd(fillna(r["home_score"], Num(0)),
                           fillna(r["away_score"], Num(0))))

\* add_targets with the margin taken away minus home
add_targets_swapped(t) ==
    assign_col(
        assign_col(t, "margin",
                   LAMBDA r : CellSub(r["away_score"], r["home_score"])),
        "total_points",
        LAMBDA r : CellAdd(r["home_score"], r["away_score"]))

\* margin and total_points
add_targets(t) ==
    IF HasCol(t, "home_score") /\ HasCol(t, "away_score")
    THEN assign_col(
            assign_col(t, "margin",
                       LAMBDA r : CellSub(r["home_score"], r["away_score"])),
            "total_points",
            LAMBDA r : CellAdd(r["home_score"], r["away_score"]))
    ELSE assign_col(assign_col(t, "margin", LAMBDA r : NaN),
                    "total_points", LAMBDA r : NaN)

\* retained_sched without the season filter
retained_sched_all_seasons(sched, SEASON) ==
    IF HasCol(sched, "game_type") THEN filter_rows(sched, is_regular) ELSE sched

\* the schedule rows the builder keeps: regular season, target season
retained_sched(sched, SEASON) ==
    filter_rows(
        IF HasCol(sched, "game_type") THEN filter_rows(sched, is_regular) ELSE sched,
        LAMBDA r : r["season"] = SEASON)

\* the two left merges
merge_features(sched, tw) ==
    merge_left(merge_left(sched, home_rename(tw), {"season", "week", "home_team"}),
               away_rename(tw), {"season", "week", "away_team"})

\* merged[home_col] - merged[away_col] raises TypeError when a row has
\* text in one operand and a value in the other: object columns are
\* subtracted element by element over the rows where both are non-null
delta_raises(t) ==
    \E b \in DOMAIN feature_bases :
        /\ HasCol(t, "home_" \o feature_bases[b])
        /\ HasCol(t, "away_" \o feature_bases[b])
        /\ \E i \in DOMAIN t.rows :
              LET h == t.rows[i]["home_" \o feature_bases[b]]
                  a == t.rows[i]["away_" \o feature_bases[b]]
              IN  notna(h) /\ notna(a) /\ (h.k = "str" \/ a.k = "str")

\* the model table the builder writes
build_table(sched, tw, SEASON) ==
    add_targets(add_deltas(merge_features(retained_sched(sched, SEASON), tw), 1))

(***************************************************************************)
(* train_models_enhanced.py                                                *)
(***************************************************************************)
\* pd.to_numeric(errors='coerce'): a non-numeric cell becomes NaN
to_numeric(c) == IF c.k = "str" THEN NaN ELSE c

\* feature_cols of the trainer: the delta_ columns in table order, then
\* home_injury_impact and away_injury_impact when present
train_feature_cols(df) ==
    SelectSeq(df.cols, LAMBDA c : startswith(c, "delta_"))
    \o (IF HasCol(df, "home_injury_impact") THEN <<"home_injury_impact">> ELSE <<>>)
    \o (IF HasCol(df, "away_injury_impact") THEN <<"away_injury_impact">> ELSE <<>>)

\* one cell of X: to_numeric, then the infinities replaced by NaN
x_cell(c) == replace_inf(to_numeric(c))

\* train_mask with a target of 0 taken for a missing one
train_mask_zero_target(row, feature_cols, target) ==
    /\ \A i \in DOMAIN feature_cols : notna(x_cell(row[feature_cols[i]]))
    /\ notna(to_numeric(row[target]))
    /\ to_numeric(row[target]) # Num(0)

\* train_mask over X without .replace([np.inf, -np.inf], np.nan)
train_mask_keeps_inf(row, feature_cols, target) ==
    /\ \A i \in DOMAIN feature_cols : notna(to_numeric(row[feature_cols[i]]))
    /\ notna(to_numeric(row[target]))

\* X.notna().all(axis=1) & y.notna() for one row of df_train
train_mask(row, feature_cols, target) ==
    /\ \A i \in DOMAIN feature_cols : notna(x_cell(row[feature_cols[i]]))
    /\ notna(to_numeric(row[target]))

\* n_splits_of without the floor of 2: 5 if n >= 500 else min(4, n // 50)
n_splits_of_no_floor(n) ==
    IF n >= 500 THEN 5
    ELSE IF n \div 50 < 4 THEN n \div 50 ELSE 4

\* n_splits = 5 if n >= 500 else max(2, min(4, n // 50))
n_splits_of(n) ==
    IF n >= 500 THEN 5
    ELSE LET q == n \div 50
             m == IF q < 4 THEN q ELSE 4
         IN  IF m > 2 THEN m ELSE 2

\* TimeSeriesSplit(n_splits).split(X) raises ValueError when there are
\* more folds than samples
split_raises(n, n_splits) == n_splits + 1 > n

\* time_series_split with a rolling window: fold k trains on the
\* test_size rows before its test slice only
time_series_split_rolling(n, n_splits) ==
    LET test_size == n \div (n_splits + 1)
        test_start(k) == n - n_splits * test_size + (k - 1) * test_size
    IN  [k \in 1..n_splits |->
           [tr |-> [i \in 1..test_size |-> test_start(k) - test_size + i],
            te |-> [i \in 1..test_size |-> test_start(k) + i]]]

\* TimeSeriesSplit(n_splits).split(X) for n samples: fold k trains on the
\* rows before its test slice; rows are numbered from 1
time_series_split(n, n_splits) ==
    LET test_size == n \div (n_splits + 1)
        test_start(k) == n - n_splits * test_size + (k - 1) * test_size
    IN  [k \in 1..n_splits |->
           [tr |-> [i \in 1..test_start(k) |-> i],
            te |-> [i \in 1..test_size |-> test_start(k) + i]]]

\* what identifies a game and places it in time
game_key(row) ==
    [season |-> row["season"], week |-> row["week"],
     home_team |-> row["home_team"], away_team |-> row["away_team"]]

\* the arguments of an XGBRegressor: learning_rate, subsample and
\* colsample_bytree in hundredths
xgb_params(n_estimators, max_depth, learning_rate, subsample, colsample_bytree, reg_lambda, random_state) ==
    [n_estimators |-> n_estimators, max_depth |-> max_depth,
     learning_rate |-> learning_rate, subsample |-> subsample,
     colsample_bytree |-> colsample_bytree, reg_lambda |-> reg_lambda,
     random_state |-> random_state]

\* XGBRegressor(...) of the margin folds
MarginFoldParams == xgb_params(400, 5, 5, 90, 90, 2, 42)

\* XGBRegressor(...) of the total folds
TotalFoldParams == xgb_params(400, 5, 5, 90, 90, 2, 42)

\* XGBRegressor(...) of the final margin model
MarginFinalParams == xgb_params(400, 5, 5, 90, 90, 2, 42)

\* XGBRegressor(...) of the final total model
TotalFinalParams == xgb_params(400, 5, 5, 90, 90, 2, 42)

\* fitted on all rows but the last: a slice is held out of the final fit
fitted_holdout(params, feature_cols, rows) ==
    [cols |-> <<"n_features_in_">>,
     params |-> params,
     n_features_in |-> Len(feature_cols),
     fit_cols |-> feature_cols,
     rows |-> [i \in 1..(Len(rows) - 1) |-> game_key(rows[i])]]

\* a fitted XGBRegressor(params).  It was fit on a bare matrix (.values),
\* so of the columns it keeps only their number; fit_cols (the features
\* the columns were, in order) and rows (the games the rows were) say
\* what the fit was, they are not something a reader of the file can get
fitted(params, feature_cols, rows) ==
    [cols |-> <<"n_features_in_">>,
     params |-> params,
     n_features_in |-> Len(feature_cols),
     fit_cols |-> feature_cols,
     rows |-> [i \in DOMAIN rows |-> game_key(rows[i])]]

(***************************************************************************)
(* predict_week_enhanced.py                                                *)
(***************************************************************************)
\* feature_cols of the predictor: the columns of the table, in table
\* order, that start with delta_ or are one of the two injury columns
predict_feature_cols(df) ==
    SelectSeq(df.cols, LAMBDA c :
        startswith(c, "delta_") \/ c \in {"home_injury_impact", "away_injury_impact"})

\* X.isna().any().any()
any_nan(rows, feature_cols) ==
    \E i \in DOMAIN rows : \E j \in DOMAIN feature_cols :
        isna(x_cell(rows[i][feature_cols[j]]))

\* XGBRegressor.predict checks only the width of the matrix it is given
predict_raises(model, feature_cols) == model.n_features_in # Len(feature_cols)

\* (a + b) / 2 and (a - b) / 2 are kept exact as a count of halves
Half(c) == IF c.k = "num" THEN [k |-> "half", v |-> c.v] ELSE c

\* norm.cdf(margin / 13.5), kept symbolic
Cdf(c) == IF c.k = "num" THEN [k |-> "cdf", v |-> c.v] ELSE c

\* the columns of the prediction file
output_cols(week_games) ==
    <<"season", "week", "home_team", "away_team",
      "predicted_margin_home_minus_away", "home_win_prob",
      "predicted_home_score", "predicted_away_score",
      "predicted_total_points", "model_home_spread">>
    \o (IF HasCol(week_games, "home_score") THEN <<"home_score", "away_score">> ELSE <<>>)
    \o (IF HasCol(week_games, "spread_line")
        THEN <<"spread_line", "edge_home_spread_pts">> ELSE <<>>)
    \o (IF HasCol(week_games, "total_line")
        THEN <<"total_line", "edge_total_pts">> ELSE <<>>)

\* predicted_row with the two implied scores the other way round
predicted_row_scores_swapped(row, pm, pt) ==
    row @@ [predicted_margin_home_minus_away |-> pm,
            predicted_total_points |-> pt,
            predicted_home_score |-> Half(CellSub(pt, pm)),
            predicted_away_score |-> Half(CellAdd(pt, pm)),
            home_win_prob |-> Cdf(pm),
            model_home_spread |-> Neg(pm),
            edge_home_spread_pts |->
                IF "spread_line" \in DOMAIN row
                THEN CellSub(Neg(pm), row["spread_line"]) ELSE NaN,
            edge_total_pts |->
                IF "total_line" \in DOMAIN row
                THEN CellSub(pt, row["total_line"]) ELSE NaN]

\* one row of week_games with its predictions and everything derived
predicted_row(row, pm, pt) ==
    row @@ [predicted_margin_home_minus_away |-> pm,
            predicted_total_points |-> pt,
            predicted_home_score |-> Half(CellAdd(pt, pm)),
            predicted_away_score |-> Half(CellSub(pt, pm)),
            home_win_prob |-> Cdf(pm),
            model_home_spread |-> Neg(pm),
            edge_home_spread_pts |->
                IF "spread_line" \in DOMAIN row
                THEN CellSub(Neg(pm), row["spread_line"]) ELSE NaN,
            edge_total_pts |->
                IF "total_line" \in DOMAIN row
                THEN CellSub(pt, row["total_line"]) ELSE NaN]

\* output_df with the rows in reverse order
output_df_reversed(week_games, pm, pt) ==
    LET cols == SelectSeq(output_cols(week_games), LAMBDA c :
                    c \in DOMAIN predicted_row(week_games.rows[1], NaN, NaN))
        n == Len(week_games.rows)
    IN  [cols |-> cols,
         rows |-> [i \in DOMAIN week_games.rows |->
                     [c \in Range(cols) |->
                        predicted_row(week_games.rows[n + 1 - i],
                                      pm[n + 1 - i], pt[n + 1 - i])[c]]]]

\* output_df: the output columns of the predicted rows, in input order
\* (.round(1) changes none of the values above)
output_df(week_games, pm, pt) ==
    LET cols == SelectSeq(output_cols(week_games), LAMBDA c :
                    c \in DOMAIN predicted_row(week_games.rows[1], NaN, NaN))
    IN  [cols |-> cols,
         rows |-> [i \in DOMAIN week_games.rows |->
                     [c \in Range(cols) |->
                        predicted_row(week_games.rows[i], pm[i], pt[i])[c]]]]

(***************************************************************************)
(* The scripts as actions.  Each is one run to completion: it either       *)
(* raises before it writes, or writes its outputs.                         *)
(***************************************************************************)
Seasons == {2024, 2025}

\* the values --week is given
CliWeeks == DOMAIN week_dirs

\* a week directory that does not exist
NoDir == [offense |-> Absent, defense |-> Absent, injuries |-> Absent]

\* a run that raised exc before writing anything
Raised(script, exc) == [script |-> script, status |-> exc]

\* a FileNotFoundError: what its message names as missing, and the
\* command its message says to run ("" when it names none)
NotFound(script, names, run_cmd) ==
    Raised(script, "FileNotFoundError") @@ [names |-> names, run_cmd |-> run_cmd]

\* a raise that lets the statement after it write the margin model
Raise_after_dump(r) ==
    /\ run' = r
    /\ margin_model' = [cols |-> <<"n_features_in_">>, n_features_in |-> 0,
                        fit_cols |-> <<>>, rows |-> <<>>]
    /\ UNCHANGED <<week_dirs, sched_file, team_week, model_table,
                   total_model, importance, predictions>>

\* an uncaught exception ends the script at the raise: no statement after
\* it runs, so no file is written
Raise(r) ==
    /\ run' = r
    /\ UNCHANGED <<week_dirs, sched_file, team_week, model_table,
                   margin_model, total_model, importance, predictions>>

\* python bridge_og_to_python.py --season SEASON --week WEEK
\* (SEASON is only printed)
Bridge(WEEK) ==
    IF week_dirs[WEEK] = NoDir
    THEN Raise(NotFound("bridge", "week_dir", "Rscript og_pipeline.R"))
    ELSE IF ~exists(week_dirs[WEEK].offense)
    THEN Raise(NotFound("bridge", "offense_file", ""))
    ELSE IF ~exists(week_dirs[WEEK].defense)
    THEN Raise(NotFound("bridge", "defense_file", ""))
    ELSE /\ team_week' = bridge_table(week_dirs[WEEK])
         /\ run' = [script |-> "bridge", status |-> "ok", WEEK |-> WEEK]
         /\ UNCHANGED <<week_dirs, sched_file, model_table, margin_model,
                        total_model, importance, predictions>>

\* python build_model_table_enhanced.py --season SEASON
Build(SEASON) ==
    IF ~exists(sched_file)
    THEN Raise(NotFound("build", "SCHED_FILE", "Rscript R/01_ingest_historical.R"))
    ELSE IF ~exists(team_week)
    THEN Raise(NotFound("build", "TEAMW_FILE", "python bridge_og_to_python.py"))
    ELSE IF delta_raises(merge_features(retained_sched(sched_file, SEASON), team_week))
    THEN Raise(Raised("build", "TypeError") @@ [SEASON |-> SEASON])
    ELSE /\ model_table' = build_table(sched_file, team_week, SEASON)
         /\ run' = [script |-> "build", status |-> "ok", SEASON |-> SEASON]
         /\ UNCHANGED <<week_dirs, sched_file, team_week, margin_model,
                        total_model, importance, predictions>>

\* importance_df: one row per feature.  The importances are the
\* regressors' own and the rows are sorted by them, so the file is kept as
\* the set of features it lists
importance_df(feature_cols) ==
    [cols |-> <<"feature", "importance_margin", "importance_total", "importance_avg">>,
     rows |-> Range(feature_cols)]

\* below this many features the trainer prints a warning
MIN_FEATURES == 5

\* below this many rows with a result the trainer prints a warning
MIN_SAMPLES == 100

\* the files the trainer writes, in the order it writes them
TrainWrites == <<"MARGIN_MODEL", "TOTAL_MODEL", "FEATURE_IMPORTANCE">>

\* the first of the two target columns that df does not have ("" when it
\* has both): df["margin"] and df_train["total_points"] raise KeyError
missing_target(df) ==
    IF ~HasCol(df, "margin") THEN "margin"
    ELSE IF ~HasCol(df, "total_points") THEN "total_points"
    ELSE ""

\* what step 3 of the trainer prints: each line with the values it
\* interpolates
train_log(before, n_train, drop_ct_margin, drop_ct_total, n_margin, n_total) ==
    <<[text |-> "{}/{} games with results (targets)", args |-> <<n_train, before>>]>>
    \o (IF n_train < MIN_SAMPLES
        THEN <<[text |-> "WARNING: Only {} training samples!", args |-> <<n_train>>]>>
        ELSE <<>>)
    \o (IF drop_ct_margin > 0
        THEN <<[text |-> "Dropping {} rows with NaN (margin)", args |-> <<drop_ct_margin>>]>>
        ELSE <<>>)
    \o (IF drop_ct_total > 0
        THEN <<[text |-> "Dropping {} rows with NaN (total)", args |-> <<drop_ct_total>>]>>
        ELSE <<>>)
    \o <<[text |-> "Final training samples: margin {}, total {}",
          args |-> <<n_margin, n_total>>]>>

\* one run of the trainer.  refused is the file whose write the storage
\* refuses with OSError, "" when every write succeeds
train_run(refused) ==
    IF ~exists(model_table)
    THEN /\ refused = ""
         /\ Raise(NotFound("train", "MODEL_TABLE",
                           "python build_model_table_enhanced.py"))
    ELSE IF missing_target(model_table) # ""
    THEN /\ refused = ""
         /\ Raise(Raised("train", "KeyError") @@
                    [key |-> missing_target(model_table),
                     feature_cols |-> train_feature_cols(model_table)])
    ELSE
      LET df == sort_values_season_week(model_table)
          feature_cols == train_feature_cols(df)
          df_train == filter_rows(df, LAMBDA r : notna(r["margin"]))
          X_margin == SelectSeq(df_train.rows,
                          LAMBDA r : train_mask(r, feature_cols, "margin"))
          X_total == SelectSeq(df_train.rows,
                          LAMBDA r : train_mask(r, feature_cols, "total_points"))
          n == Len(X_margin)
          n_splits == n_splits_of(n)
          locals == [script |-> "train",
                     feature_cols |-> feature_cols,
                     warned_few_features |-> Len(feature_cols) < MIN_FEATURES,
                     df_train |-> [i \in DOMAIN df_train.rows |-> game_key(df_train.rows[i])],
                     warned_few_samples |-> Len(df_train.rows) < MIN_SAMPLES,
                     X_margin |-> [i \in DOMAIN X_margin |-> game_key(X_margin[i])],
                     X_total |-> [i \in DOMAIN X_total |-> game_key(X_total[i])],
                     log |-> train_log(Len(df.rows), Len(df_train.rows),
                                       Len(df_train.rows) - Len(X_margin),
                                       Len(df_train.rows) - Len(X_total),
                                       Len(X_margin), Len(X_total)),
                     n_splits |-> n_splits]
      IN  IF split_raises(n, n_splits)
          THEN /\ refused = ""
               /\ Raise(locals @@ [status |-> "ValueError"])
          ELSE IF split_raises(Len(X_total), n_splits)
          THEN /\ refused = ""
               /\ Raise(locals @@ [status |-> "ValueError",
                                   margin_folds |-> time_series_split(n, n_splits)])
          ELSE /\ run' = locals @@
                    [status |-> IF refused = "" THEN "ok" ELSE "OSError",
                     refused |-> refused,
                     margin_folds |-> time_series_split(n, n_splits),
                     total_folds |-> time_series_split(Len(X_total), n_splits),
                     fold_params |-> [margin |-> MarginFoldParams,
                                      total |-> TotalFoldParams]]
               /\ margin_model' = IF refused = "MARGIN_MODEL" THEN margin_model
                                  ELSE fitted(MarginFinalParams, feature_cols, X_margin)
               /\ total_model' = IF refused \in {"MARGIN_MODEL", "TOTAL_MODEL"}
                                 THEN total_model
                                 ELSE fitted(TotalFinalParams, feature_cols, X_total)
               /\ importance' = IF refused = "" THEN importance_df(feature_cols)
                                ELSE importance
               /\ UNCHANGED <<week_dirs, sched_file, team_week, model_table,
                              predictions>>

\* python train_models_enhanced.py
Train == train_run("")

\* python train_models_enhanced.py, with the storage refusing one of the
\* three writes (joblib.dump, joblib.dump, to_csv)
TrainWriteRefused == \E at \in Range(TrainWrites) : train_run(at)

\* what the regressors can predict for a game, in points
PredictedMargins == {Num(0 - 3), Num(4)}

PredictedTotals == {Num(41)}

\* the number of cells of X that are NaN after to_numeric and replace
nan_count(rows, feature_cols) ==
    Cardinality({<<i, j>> \in (DOMAIN rows) \X (DOMAIN feature_cols) :
                    isna(x_cell(rows[i][feature_cols[j]]))})

\* what the predictor prints before it predicts: each line with the
\* values it interpolates
predict_log(week_games, feature_cols) ==
    <<[text |-> "Found {} games", args |-> <<Len(week_games.rows)>>],
      [text |-> "Using {} features", args |-> <<Len(feature_cols)>>]>>
    \o (IF any_nan(week_games.rows, feature_cols)
        THEN <<[text |-> "WARNING: Some features have NaN values", args |-> <<>>]>>
        ELSE <<>>)

\* python predict_week_enhanced.py --season SEASON --week WEEK
Predict(SEASON, WEEK) ==
    IF ~exists(margin_model) \/ ~exists(total_model)
    THEN Raise(NotFound("predict", "Models", "python train_models_enhanced.py"))
    ELSE IF ~exists(model_table)
    THEN Raise(NotFound("predict", "MODEL_TABLE",
                        "python build_model_table_enhanced.py"))
    ELSE
      LET df == model_table
          week_games == filter_rows(df, LAMBDA r :
                            r["season"] = SEASON /\ r["week"] = WEEK)
          feature_cols == SelectSeq(predict_feature_cols(df),
                              LAMBDA c : c \in Range(week_games.cols))
          n == Len(week_games.rows)
      IN  IF n = 0
          THEN Raise(Raised("predict", "ValueError") @@
                        [SEASON |-> SEASON, WEEK |-> WEEK, games |-> 0])
          ELSE IF predict_raises(margin_model, feature_cols)
                   \/ predict_raises(total_model, feature_cols)
          THEN Raise(Raised("predict", "ValueError") @@
                        [SEASON |-> SEASON, WEEK |-> WEEK, games |-> n])
          ELSE \E pm \in [1..n -> PredictedMargins], pt \in [1..n -> PredictedTotals] :
               /\ predictions' = [predictions EXCEPT ![<<SEASON, WEEK>>] =
                                     output_df(week_games, pm, pt)]
               /\ run' = [script |-> "predict", status |-> "ok",
                          SEASON |-> SEASON, WEEK |-> WEEK,
                          feature_cols |-> feature_cols,
                          warned |-> any_nan(week_games.rows, feature_cols),
                          log |-> predict_log(week_games, feature_cols),
                          X |-> [i \in 1..n |-> [j \in DOMAIN feature_cols |->
                                   fillna(x_cell(week_games.rows[i][feature_cols[j]]),
                                          Num(0))]]]
               /\ UNCHANGED <<week_dirs, sched_file, team_week, model_table,
                              margin_model, total_model, importance>>

(***************************************************************************)
(* Inputs.  The CSVs of a week directory and the schedule come from        *)
(* outside; each specification below draws them from a bounded family.     *)
(***************************************************************************)
\* a team-week the source has no row for
Missing == [k |-> "missing", v |-> 0]

\* the team-weeks of the listed teams in weeks 1..weeks of one season
src_keys(teams, weeks, season) ==
    [i \in 1..(Len(teams) * weeks) |->
        [team |-> teams[((i - 1) % Len(teams)) + 1],
         season |-> season,
         week |-> ((i - 1) \div Len(teams)) + 1]]

\* offense_weekly.csv / defense_weekly.csv with one metric column: a row
\* for every key whose value is not Missing; keys are unique
src_table(teamcol, metric, keys, a) ==
    LET present == SelectSeq([i \in DOMAIN keys |-> i], LAMBDA i : a[i] # Missing)
    IN  [cols |-> <<teamcol, "season", "week", metric>>,
         rows |-> [j \in DOMAIN present |->
                     (teamcol :> keys[present[j]].team)
                     @@ ("season" :> keys[present[j]].season)
                     @@ ("week" :> keys[present[j]].week)
                     @@ (metric :> a[present[j]])]]

\* injuries_summary.csv: one row per listed team for week 1, with the
\* team's rank as its impact score
inj_table(teams) ==
    [cols |-> <<"team", "week", "injury_impact_score", "qb_injuries", "out_count">>,
     rows |-> [i \in DOMAIN teams |->
                 [team |-> teams[i], week |-> 1,
                  injury_impact_score |-> Num(team_rank(teams[i])),
                  qb_injuries |-> Num(0), out_count |-> Num(1)]]]

SchedCols ==
    <<"season", "week", "game_type", "home_team", "away_team",
      "home_score", "away_score", "spread_line", "total_line">>

game(season, week, game_type, home, away, hs, as) ==
    [season |-> season, week |-> week, game_type |-> game_type,
     home_team |-> home, away_team |-> away,
     home_score |-> hs, away_score |-> as,
     spread_line |-> Num(0 - 3), total_line |-> Num(44)]

NoPredictions == [k \in Seasons \X {1, 2} |-> Absent]

NotRun == [script |-> "none", status |-> "ok"]

\* nothing has been produced yet
NoOutputs ==
    /\ team_week = Absent
    /\ model_table = Absent
    /\ margin_model = Absent
    /\ total_model = Absent
    /\ importance = Absent
    /\ predictions = NoPredictions
    /\ run = NotRun

(* -- the bridge's inputs: any subset of team-weeks in either source ------ *)
SrcWeeks == 2

BridgeTeams == <<"BUF", "NE">>

BridgeKeys == src_keys(BridgeTeams, SrcWeeks, 2025)

InitBridge ==
    /\ \E a \in [DOMAIN BridgeKeys -> {Missing, Num(1)}],
          b \in [DOMAIN BridgeKeys -> {Missing, Num(1)}],
          inj \in {<<>>, <<"BUF">>, <<"NE">>, <<"BUF", "NE">>} :
          week_dirs = <<[offense |-> src_table("offense_team", "avg_epa_pass", BridgeKeys, a),
                         defense |-> src_table("defense_team", "avg_epa_per_play", BridgeKeys, b),
                         injuries |-> IF inj = <<>> THEN Absent ELSE inj_table(inj)],
                        NoDir>>
    /\ sched_file = [cols |-> SchedCols,
                     rows |-> <<game(2025, 1, "REG", "NE", "BUF", NaN, NaN)>>]
    /\ NoOutputs

NextBridge == \E WEEK \in CliWeeks : Bridge(WEEK)

SpecBridge == InitBridge /\ [][NextBridge]_vars

(* -- the builder's inputs: one game with any scores and any features ---- *)
MaxScore == 1

ScoreVals == {NaN} \cup {Num(n) : n \in 0..MaxScore}

BuildKeys == src_keys(<<"BUF", "NE">>, 1, 2025)

\* game 1 is the one whose scores and features vary; LA is a name the
\* sources do not use, week 2 has no team-week rows, the 2024 game and
\* the post-season game are there to be filtered
build_sched(hs, as) ==
    [cols |-> SchedCols,
     rows |-> <<game(2025, 1, "REG", "NE", "BUF", hs, as),
                game(2025, 1, "REG", "LA", "BUF", NaN, NaN),
                game(2024, 1, "REG", "NE", "BUF", Num(1), Num(0)),
                game(2025, 1, "POST", "BUF", "NE", Num(1), Num(0)),
                game(2025, 2, NA, "BUF", "NE", NaN, NaN)>>]

InitBuild ==
    /\ \E a \in [DOMAIN BuildKeys -> {Missing, NaN, Num(0), Num(2), Inf(1)}],
          b \in [DOMAIN BuildKeys -> {Missing, Num(1)}],
          inj \in {<<>>, <<"BUF">>, <<"NE">>, <<"BUF", "NE">>} :
          week_dirs = <<[offense |-> src_table("offense_team", "avg_epa_pass", BuildKeys, a),
                         defense |-> src_table("defense_team", "avg_epa_per_play", BuildKeys, b),
                         injuries |-> IF inj = <<>> THEN Absent ELSE inj_table(inj)],
                        NoDir>>
    /\ \E hs \in ScoreVals, as \in ScoreVals : sched_file = build_sched(hs, as)
    /\ NoOutputs

NextBuild ==
    \/ \E WEEK \in CliWeeks : Bridge(WEEK)
    \/ \E SEASON \in Seasons : Build(SEASON)

SpecBuild == InitBuild /\ [][NextBuild]_vars

(* -- the trainer's inputs: MaxGames games in any weeks, played or not --- *)
MaxGames == 4

\* game i is Roster[2i] at Roster[2i - 1]
train_sched(weeks, played) ==
    [cols |-> SchedCols,
     rows |-> [i \in 1..MaxGames |->
                 game(2025, weeks[i], "REG", Roster[2 * i - 1], Roster[2 * i],
                      IF played[i] THEN Num(1) ELSE NaN,
                      IF played[i] THEN Num(0) ELSE NaN)]]

TrainKeys == src_keys(SubSeq(Roster, 1, 2 * MaxGames), 2, 2025)

\* a week directory with a row for every team-week of TrainKeys
full_dir(off_metric, with_injuries) ==
    [offense |-> src_table("offense_team", off_metric, TrainKeys,
                           [i \in DOMAIN TrainKeys |-> Num(1)]),
     defense |-> src_table("defense_team", "avg_epa_per_play", TrainKeys,
                           [i \in DOMAIN TrainKeys |-> Num(2)]),
     injuries |-> IF with_injuries THEN inj_table(SubSeq(Roster, 1, 2 * MaxGames))
                  ELSE Absent]

InitTrain ==
    /\ week_dirs = <<full_dir("avg_epa_pass", FALSE), NoDir>>
    /\ \E weeks \in [1..MaxGames -> 1..2], played \in [1..MaxGames -> BOOLEAN] :
          sched_file = train_sched(weeks, played)
    /\ NoOutputs

NextTrain ==
    \/ \E WEEK \in CliWeeks : Bridge(WEEK)
    \/ \E SEASON \in Seasons : Build(SEASON)
    \/ Train

SpecTrain == InitTrain /\ [][NextTrain]_vars

(* -- the trainer over tables built from any results ----------------------- *)
\* the final scores of a game: not played, a home win, a draw, one
\* score missing
ScorePairs == {<<NaN, NaN>>, <<Num(1), Num(0)>>, <<Num(1), Num(1)>>, <<NaN, Num(1)>>}

\* MaxGames games, two a week, each with any of the score pairs
InitTargets ==
    /\ week_dirs = <<full_dir("avg_epa_pass", FALSE), NoDir>>
    /\ \E scores \in [1..MaxGames -> ScorePairs] :
          sched_file =
            [cols |-> SchedCols,
             rows |-> [i \in 1..MaxGames |->
                         game(2025, ((i - 1) \div 2) + 1, "REG",
                              Roster[2 * i - 1], Roster[2 * i],
                              scores[i][1], scores[i][2])]]
    /\ NoOutputs

NextTargets ==
    \/ \E WEEK \in CliWeeks : Bridge(WEEK)
    \/ \E SEASON \in Seasons : Build(SEASON)
    \/ Train

SpecTargets == InitTargets /\ [][NextTargets]_vars

(* -- the whole pipeline over two week directories ----------------------- *)
\* week 1 has been played, the last game is next week's; the second
\* week directory, when there is one, has avg_epa_run where the first has
\* avg_epa_pass
Init ==
    /\ \E inj1 \in BOOLEAN, inj2 \in BOOLEAN, dir2 \in BOOLEAN :
          week_dirs = <<full_dir("avg_epa_pass", inj1),
                        IF dir2 THEN full_dir("avg_epa_run", inj2) ELSE NoDir>>
    /\ sched_file = train_sched([i \in 1..MaxGames |-> IF i < MaxGames THEN 1 ELSE 2],
                                [i \in 1..MaxGames |-> i < MaxGames])
    /\ NoOutputs

Next ==
    \/ \E WEEK \in CliWeeks : Bridge(WEEK)
    \/ \E SEASON \in Seasons : Build(SEASON)
    \/ Train
    \/ \E SEASON \in Seasons, WEEK \in CliWeeks : Predict(SEASON, WEEK)

Spec == Init /\ [][Next]_vars

(* -- the trainer over a model table and models that are already there ---- *)
\* t without the columns of drop
drop_cols(t, drop) == select_cols(t, SelectSeq(t.cols, LAMBDA c : c \notin drop))

\* the feature list the trainer selects from a table built from sources
\* with off_metric and avg_epa_per_play, without and with injuries
past_feature_cols(off_metric, with_injuries) ==
    <<"delta_off_" \o off_metric, "delta_def_avg_epa_per_play">>
    \o (IF with_injuries
        THEN <<"delta_injury_impact", "home_injury_impact", "away_injury_impact">>
        ELSE <<>>)

\* what a finished run of the trainer left in storage, over a season of
\* MaxGames games, all played in week 1, every team-week complete
past_outputs(off_metric, with_injuries) ==
    LET feature_cols == past_feature_cols(off_metric, with_injuries)
        rows == train_sched([i \in 1..MaxGames |-> 1],
                            [i \in 1..MaxGames |-> TRUE]).rows
    IN  [margin_model |-> fitted(MarginFinalParams, feature_cols, rows),
         total_model |-> fitted(TotalFinalParams, feature_cols, rows),
         importance |-> importance_df(feature_cols)]

\* a model table found in storage: the schedule columns, two delta
\* columns and the targets, without the columns of drop
stored_table(sched, drop) ==
    drop_cols(
        [cols |-> SchedCols \o <<"delta_off_avg_epa_pass", "delta_def_avg_epa_per_play",
                                 "margin", "total_points">>,
         rows |-> [i \in DOMAIN sched.rows |->
                     sched.rows[i] @@
                     [delta_off_avg_epa_pass |-> Num(0),
                      delta_def_avg_epa_per_play |-> Num(1),
                      margin |-> CellSub(sched.rows[i]["home_score"],
                                         sched.rows[i]["away_score"]),
                      total_points |-> CellAdd(sched.rows[i]["home_score"],
                                               sched.rows[i]["away_score"])]]],
        drop)

\* two games a week, the first two in week 1
RetrainWeeks == [i \in 1..MaxGames |-> ((i - 1) \div 2) + 1]

\* the table has both targets, one, or none; the models are absent or
\* those of an earlier run over avg_epa_run
InitRetrain ==
    /\ week_dirs = <<NoDir, NoDir>>
    /\ team_week = Absent
    /\ \E played \in [1..MaxGames -> BOOLEAN], drop \in SUBSET {"margin", "total_points"} :
          /\ sched_file = train_sched(RetrainWeeks, played)
          /\ model_table = stored_table(sched_file, drop)
    /\ \E old \in BOOLEAN :
          /\ margin_model = IF old THEN past_outputs("avg_epa_run", FALSE).margin_model
                            ELSE Absent
          /\ total_model = IF old THEN past_outputs("avg_epa_run", FALSE).total_model
                           ELSE Absent
          /\ importance = IF old THEN past_outputs("avg_epa_run", FALSE).importance
                          ELSE Absent
    /\ predictions = NoPredictions
    /\ run = NotRun

NextRetrain ==
    \/ Train
    \/ TrainWriteRefused

SpecRetrain == InitRetrain /\ [][NextRetrain]_vars

(* -- the trainer over a table with null and infinite features ----------- *)
\* the weeks alternate, so the table is not in (season, week) order
CleanWeeks == [i \in 1..MaxGames |-> 2 - (i % 2)]

\* stored_table with the cells of delta_off_avg_epa_pass given
cleaning_table(sched, cells) ==
    [cols |-> stored_table(sched, {}).cols,
     rows |-> [i \in DOMAIN sched.rows |->
                 ("delta_off_avg_epa_pass" :> cells[i]) @@ stored_table(sched, {}).rows[i]]]

\* every game is played or not; its delta is a number, null or infinite
InitClean ==
    /\ week_dirs = <<NoDir, NoDir>>
    /\ team_week = Absent
    /\ \E played \in [1..MaxGames -> BOOLEAN],
          cells \in [1..MaxGames -> {Num(0), NaN, Inf(1)}] :
          /\ sched_file = train_sched(CleanWeeks, played)
          /\ model_table = cleaning_table(sched_file, cells)
    /\ margin_model = Absent
    /\ total_model = Absent
    /\ importance = Absent
    /\ predictions = NoPredictions
    /\ run = NotRun

NextClean == Train

SpecClean == InitClean /\ [][NextClean]_vars

(* -- the fold count as a function of the cleaned sample count ------------ *)
MaxSamples == 520

\* step 4 of the trainer for n cleaned samples: n_splits, and the folds
\* the loop over tscv.split runs
cross_validate(n) ==
    LET n_splits == n_splits_of(n)
    IN  [script |-> "train",
         status |-> IF split_raises(n, n_splits) THEN "ValueError" ELSE "cv",
         n |-> n,
         n_splits |-> n_splits,
         n_folds |-> IF split_raises(n, n_splits) THEN 0
                     ELSE Len(time_series_split(n, n_splits)),
         folds |-> IF split_raises(n, n_splits) THEN <<>>
                   ELSE time_series_split(n, n_splits)]

\* the trainer has cleaned its data and holds n samples
InitFolds ==
    /\ week_dirs = <<NoDir, NoDir>>
    /\ sched_file = Absent
    /\ team_week = Absent
    /\ model_table = Absent
    /\ margin_model = Absent
    /\ total_model = Absent
    /\ importance = Absent
    /\ predictions = NoPredictions
    /\ \E n \in 0..MaxSamples :
          run = [script |-> "train", status |-> "cleaned", n |-> n]

CrossValidate ==
    /\ run.script = "train"
    /\ run.status = "cleaned"
    /\ run' = cross_validate(run.n)
    /\ UNCHANGED <<week_dirs, sched_file, team_week, model_table,
                   margin_model, total_model, importance, predictions>>

NextFolds == CrossValidate

SpecFolds == InitFolds /\ [][NextFolds]_vars

(* -- the predictor over an upcoming week with incomplete sources --------- *)
PredictTeams == SubSeq(Roster, 1, 4)

PredictKeys == src_keys(PredictTeams, 1, 2025)

\* two upcoming games of week 1
predict_sched ==
    [cols |-> SchedCols,
     rows |-> <<game(2025, 1, "REG", Roster[1], Roster[2], NaN, NaN),
                game(2025, 1, "REG", Roster[3], Roster[4], NaN, NaN)>>]

\* the models are those of a season that is over; the week directory has
\* any offense value, or none, for the two teams of the first game
InitPredict ==
    /\ \E v1 \in {Missing, NaN, Num(2), Inf(1)}, v2 \in {Missing, NaN, Num(2), Inf(1)},
          inj \in BOOLEAN :
          /\ week_dirs =
               <<[offense |-> src_table("offense_team", "avg_epa_pass", PredictKeys,
                                 [i \in DOMAIN PredictKeys |->
                                    IF i = 1 THEN v1 ELSE IF i = 2 THEN v2 ELSE Num(1)]),
                  defense |-> src_table("defense_team", "avg_epa_per_play", PredictKeys,
                                 [i \in DOMAIN PredictKeys |-> Num(2)]),
                  injuries |-> IF inj THEN inj_table(<<Roster[1]>>) ELSE Absent],
                 NoDir>>
          /\ margin_model = past_outputs("avg_epa_pass", inj).margin_model
          /\ total_model = past_outputs("avg_epa_pass", inj).total_model
          /\ importance = past_outputs("avg_epa_pass", inj).importance
    /\ sched_file = predict_sched
    /\ team_week = Absent
    /\ model_table = Absent
    /\ predictions = NoPredictions
    /\ run = NotRun

NextPredict ==
    \/ \E WEEK \in CliWeeks : Bridge(WEEK)
    \/ \E SEASON \in Seasons : Build(SEASON)
    \/ \E SEASON \in Seasons, WEEK \in CliWeeks : Predict(SEASON, WEEK)

SpecPredict == InitPredict /\ [][NextPredict]_vars

(* -- the builder over team-weeks of several weeks ------------------------ *)
MatchupTeams == <<"BUF", "NE">>

MatchupKeys == src_keys(MatchupTeams, SrcWeeks, 2025)

\* one game a week between the two teams, the home side alternating
matchup_sched ==
    [cols |-> SchedCols,
     rows |-> [w \in 1..SrcWeeks |->
                 IF w % 2 = 1 THEN game(2025, w, "REG", "NE", "BUF", NaN, NaN)
                 ELSE game(2025, w, "REG", "BUF", "NE", NaN, NaN)]]

\* every team-week is in both sources or in neither; a team-week's values
\* are its own (no two team-weeks share one); the offense metric is
\* numeric, or text in every row (a CSV column that did not parse)
InitMatchup ==
    /\ \E present \in [DOMAIN MatchupKeys -> BOOLEAN], text \in BOOLEAN, inj \in BOOLEAN :
          week_dirs =
            <<[offense |-> src_table("offense_team", "avg_epa_pass", MatchupKeys,
                              [i \in DOMAIN MatchupKeys |->
                                 IF ~present[i] THEN Missing
                                 ELSE IF text THEN Str
                                 ELSE Num(10 * MatchupKeys[i].week + i)]),
               defense |-> src_table("defense_team", "avg_epa_per_play", MatchupKeys,
                              [i \in DOMAIN MatchupKeys |->
                                 IF present[i] THEN Num(100 + i) ELSE Missing]),
               injuries |-> IF inj THEN inj_table(<<"BUF">>) ELSE Absent],
              NoDir>>
    /\ sched_file = matchup_sched
    /\ NoOutputs

NextMatchup ==
    \/ \E WEEK \in CliWeeks : Bridge(WEEK)
    \/ \E SEASON \in Seasons : Build(SEASON)

SpecMatchup == InitMatchup /\ [][NextMatchup]_vars

(* -- the builder and the predictor over a schedule of two seasons -------- *)
\* a game of 2024, played or not, and two upcoming games of 2025
seasons_sched(played) ==
    [cols |-> SchedCols,
     rows |-> <<game(2024, 1, "REG", Roster[1], Roster[2],
                     IF played THEN Num(1) ELSE NaN, IF played THEN Num(0) ELSE NaN),
                game(2025, 1, "REG", Roster[1], Roster[2], NaN, NaN),
                game(2025, 1, "REG", Roster[3], Roster[4], NaN, NaN)>>]

\* the week directory is complete, with or without injuries; the models
\* are those of an earlier run of the trainer
InitSeasons ==
    /\ \E inj \in BOOLEAN :
          /\ week_dirs =
               <<[offense |-> src_table("offense_team", "avg_epa_pass", PredictKeys,
                                 [i \in DOMAIN PredictKeys |-> Num(1)]),
                  defense |-> src_table("defense_team", "avg_epa_per_play", PredictKeys,
                                 [i \in DOMAIN PredictKeys |-> Num(2)]),
                  injuries |-> IF inj THEN inj_table(<<Roster[1]>>) ELSE Absent],
                 NoDir>>
          /\ margin_model = past_outputs("avg_epa_pass", inj).margin_model
          /\ total_model = past_outputs("avg_epa_pass", inj).total_model
          /\ importance = past_outputs("avg_epa_pass", inj).importance
    /\ \E played \in BOOLEAN : sched_file = seasons_sched(played)
    /\ team_week = Absent
    /\ model_table = Absent
    /\ predictions = NoPredictions
    /\ run = NotRun

NextSeasons ==
    \/ \E WEEK \in CliWeeks : Bridge(WEEK)
    \/ \E SEASON \in Seasons : Build(SEASON)
    \/ \E SEASON \in Seasons, WEEK \in CliWeeks : Predict(SEASON, WEEK)

SpecSeasons == InitSeasons /\ [][NextSeasons]_vars

(***************************************************************************)
(* Properties                                                              *)
(***************************************************************************)
TrainedOk == run.script = "train" /\ run.status = "ok"

PredictedOk == run.script = "predict" /\ run.status = "ok"

BuiltOk == run.script = "build" /\ run.status = "ok"

BridgedOk == run.script = "bridge" /\ run.status = "ok"

\* (season, week) of a before (season, week) of b
earlier(a, b) ==
    \/ a.season < b.season
    \/ a.season = b.season /\ a.week < b.week

\* every validation row of every fold is later than every training row
folds_look_back(folds, X) ==
    \A k \in DOMAIN folds :
        \A i \in DOMAIN folds[k].te : \A j \in DOMAIN folds[k].tr :
            earlier(X[folds[k].tr[j]], X[folds[k].te[i]])

\* C1: in every fold of the trainer's cross-validation, every validation
\* row's (season, week) is strictly greater than the (season, week) of
\* every row of the fold's training set.
C1_NoLookahead ==
    TrainedOk =>
        /\ folds_look_back(run.margin_folds, run.X_margin)
        /\ folds_look_back(run.total_folds, run.X_total)

\* C2: the ordered feature list the predictor builds from a model table
\* is, element by element, the list the trainer builds from that table.
C2_SameFeatureOrder ==
    PredictedOk => run.feature_cols = train_feature_cols(model_table)

\* C3: when the features the models were fit on include a name that is
\* not a column of the current model table, the predictor fails and
\* scores nothing: it never completes a run on such a table.
C3_MissingFeatureIsFatal ==
    PredictedOk => Range(margin_model.fit_cols) \subseteq Range(model_table.cols)

\* C4: the ordered feature list the models were fit on is persisted with
\* them and is the list the predictor uses: whenever the predictor has
\* scored a week, column i of its matrix is feature i of the fit.
C4_PredictorUsesPersistedList ==
    PredictedOk =>
        /\ run.feature_cols = margin_model.fit_cols
        /\ run.feature_cols = total_model.fit_cols

\* the rows of a table whose game is g
rows_of_game(t, g) == {i \in DOMAIN t.rows : game_key(t.rows[i]) = g}

\* the team-week rows of a team in a (season, week)
team_week_rows(tw, team, season, week) ==
    {i \in DOMAIN tw.rows :
        /\ tw.rows[i]["team"] = team
        /\ tw.rows[i]["season"] = season
        /\ tw.rows[i]["week"] = week}

\* the feature columns of the team-week table
team_week_features(tw) == Range(tw.cols) \ KeyCols

\* the whitelisted base names
Bases == Range(feature_bases)

\* C5: for every row of the model table and every whitelisted base X with
\* a delta_X column, delta_X is home_X minus away_X when both are
\* non-null, and null when home_X or away_X is null.
C5_DeltaIsHomeMinusAway ==
    exists(model_table) =>
        \A i \in DOMAIN model_table.rows : \A base \in Bases :
            HasCol(model_table, "delta_" \o base) =>
                LET h == model_table.rows[i]["home_" \o base]
                    a == model_table.rows[i]["away_" \o base]
                    d == model_table.rows[i]["delta_" \o base]
                IN  IF isna(h) \/ isna(a) THEN d = NaN
                    ELSE IF h.k = "num" /\ a.k = "num" THEN d = Num(h.v - a.v)
                    ELSE IF h.k = "inf" /\ a.k = "inf" /\ h.v = a.v THEN d = NaN
                    ELSE IF h.k = "inf" THEN d = h
                    ELSE d = Inf(0 - a.v)

\* a table with a delta of two different numbers and, in another row, a
\* null delta next to a non-null operand
C5_Witness ==
    /\ exists(model_table)
    /\ \E i \in DOMAIN model_table.rows :
          /\ model_table.rows[i]["home_off_avg_epa_pass"] = Num(0)
          /\ model_table.rows[i]["away_off_avg_epa_pass"] = Num(2)
          /\ model_table.rows[i]["delta_off_avg_epa_pass"] = Num(0 - 2)
    /\ \E i \in DOMAIN model_table.rows :
          /\ isna(model_table.rows[i]["home_off_avg_epa_pass"])
          /\ model_table.rows[i]["away_off_avg_epa_pass"] = Num(2)
          /\ isna(model_table.rows[i]["delta_off_avg_epa_pass"])

\* C6: in every row of the model table margin and total_points are both
\* null or both non-null, and they are non-null exactly when home_score
\* and away_score are both non-null.
C6_TargetsNullTogether ==
    exists(model_table) =>
        \A i \in DOMAIN model_table.rows :
            LET r == model_table.rows[i]
            IN  /\ notna(r["margin"]) <=> notna(r["total_points"])
                /\ notna(r["margin"]) <=>
                      (notna(r["home_score"]) /\ notna(r["away_score"]))

\* a game with one score only, and no target
C6_Witness ==
    /\ exists(model_table)
    /\ \E i \in DOMAIN model_table.rows :
          LET r == model_table.rows[i]
          IN  /\ notna(r["home_score"]) /\ isna(r["away_score"])
              /\ isna(r["margin"]) /\ isna(r["total_points"])

\* C7: in every row with both scores, (total_points + margin)/2 is
\* home_score and (total_points - margin)/2 is away_score.
C7_TargetsReconstructScores ==
    exists(model_table) =>
        \A i \in DOMAIN model_table.rows :
            LET r == model_table.rows[i]
            IN  (notna(r["home_score"]) /\ notna(r["away_score"])) =>
                    /\ r["margin"].k = "num" /\ r["total_points"].k = "num"
                    /\ r["total_points"].v + r["margin"].v = 2 * r["home_score"].v
                    /\ r["total_points"].v - r["margin"].v = 2 * r["away_score"].v

\* a played game that the home team lost
C7_Witness ==
    /\ exists(model_table)
    /\ \E i \in DOMAIN model_table.rows :
          LET r == model_table.rows[i]
          IN  /\ r["home_score"] = Num(0) /\ r["away_score"] = Num(1)
              /\ r["margin"] = Num(0 - 1) /\ r["total_points"] = Num(1)

\* the (season, team, week) of the rows of a source
source_keys(src, teamcol) ==
    {[team |-> src.rows[i][teamcol], season |-> src.rows[i]["season"],
      week |-> src.rows[i]["week"]] : i \in DOMAIN src.rows}

kept_games(sched, SEASON) ==
    SelectSeq(sched.rows, LAMBDA r :
        /\ r["season"] = SEASON
        /\ r["game_type"] \in {"REG", "reg", "REGULAR", "REGULAR_SEASON", "", NA})

\* C9: the builder emits exactly one row for every retained schedule game
\* of the target season, in schedule order; a game whose home (away) team
\* has no team-week row for its (season, week) is there with every home_
\* (away_) feature null.
C9_OneRowPerGame ==
    BuiltOk =>
        LET kept == kept_games(sched_file, run.SEASON)
        IN  /\ Len(model_table.rows) = Len(kept)
            /\ \A i \in DOMAIN kept :
                  LET r == model_table.rows[i]
                  IN  /\ game_key(r) = game_key(kept[i])
                      /\ team_week_rows(team_week, r["home_team"], r["season"], r["week"]) = {}
                            => \A c \in team_week_features(team_week) : isna(r["home_" \o c])
                      /\ team_week_rows(team_week, r["away_team"], r["season"], r["week"]) = {}
                            => \A c \in team_week_features(team_week) : isna(r["away_" \o c])

\* a table of several games, one of them with a home team the team-week
\* table does not know and an away team it does
C9_Witness ==
    /\ BuiltOk
    /\ Len(model_table.rows) > 1
    /\ \E i \in DOMAIN model_table.rows :
          LET r == model_table.rows[i]
          IN  /\ team_week_rows(team_week, r["home_team"], r["season"], r["week"]) = {}
              /\ team_week_rows(team_week, r["away_team"], r["season"], r["week"]) # {}
              /\ isna(r["home_off_avg_epa_pass"])
              /\ notna(r["away_off_avg_epa_pass"])

\* the unplayed games of the built season whose two teams both have a
\* team-week row for the game's week
unplayed_with_rows ==
    {i \in DOMAIN kept_games(sched_file, run.SEASON) :
        LET g == kept_games(sched_file, run.SEASON)[i]
        IN  /\ isna(g["home_score"])
            /\ team_week_rows(team_week, g["home_team"], g["season"], g["week"]) # {}
            /\ team_week_rows(team_week, g["away_team"], g["season"], g["week"]) # {}}

\* C10 as claimed: an unplayed game whose two teams both have team-week
\* rows gives exactly one matchup row with non-null home_ and away_
\* features, null margin and total_points, and a populated delta_ column
\* for every base name of the whitelist.
C10_UnplayedGameFullyPopulated ==
    BuiltOk =>
        \A i \in unplayed_with_rows :
            LET g == game_key(kept_games(sched_file, run.SEASON)[i])
            IN  /\ Cardinality(rows_of_game(model_table, g)) = 1
                /\ \A j \in rows_of_game(model_table, g) :
                      LET r == model_table.rows[j]
                      IN  /\ \A c \in team_week_features(team_week) :
                                notna(r["home_" \o c]) /\ notna(r["away_" \o c])
                          /\ isna(r["margin"]) /\ isna(r["total_points"])
                          /\ \A base \in Bases :
                                /\ HasCol(model_table, "delta_" \o base)
                                /\ notna(r["delta_" \o base])

\* C10 amended: an unplayed game whose two teams both have team-week rows
\* gives exactly one matchup row; its home_ and away_ features are the
\* values of the two team-week rows, margin and total_points are null,
\* and there is a delta_ column exactly for the whitelisted bases that are
\* columns of the team-week table, holding the home row's value minus the
\* away row's value (null when either is null).
C10_UnplayedGameRow ==
    BuiltOk =>
        \A i \in unplayed_with_rows :
            LET g == game_key(kept_games(sched_file, run.SEASON)[i])
                home == team_week.rows[CHOOSE k \in team_week_rows(
                            team_week, g.home_team, g.season, g.week) : TRUE]
                away == team_week.rows[CHOOSE k \in team_week_rows(
                            team_week, g.away_team, g.season, g.week) : TRUE]
            IN  /\ Cardinality(rows_of_game(model_table, g)) = 1
                /\ \A j \in rows_of_game(model_table, g) :
                      LET r == model_table.rows[j]
                      IN  /\ \A c \in team_week_features(team_week) :
                                r["home_" \o c] = home[c] /\ r["away_" \o c] = away[c]
                          /\ isna(r["margin"]) /\ isna(r["total_points"])
                          /\ \A base \in Bases :
                                /\ HasCol(model_table, "delta_" \o base)
                                      <=> base \in team_week_features(team_week)
                                /\ base \in team_week_features(team_week) =>
                                      /\ r["delta_" \o base] = CellSub(home[base], away[base])
                                      /\ (isna(home[base]) \/ isna(away[base]))
                                            => isna(r["delta_" \o base])
                                      /\ (home[base].k = "num" /\ away[base].k = "num")
                                            => r["delta_" \o base] = Num(home[base].v - away[base].v)

\* an unplayed game between two teams with complete team-week rows and
\* injuries: three deltas, all non-null
C10_Witness ==
    /\ BuiltOk
    /\ \E i \in unplayed_with_rows :
          LET g == game_key(kept_games(sched_file, run.SEASON)[i])
          IN  \E j \in rows_of_game(model_table, g) :
                 LET r == model_table.rows[j]
                 IN  /\ r["delta_off_avg_epa_pass"] = Num(2)
                     /\ r["delta_def_avg_epa_per_play"] = Num(0)
                     /\ HasCol(model_table, "delta_injury_impact")
                     /\ r["delta_injury_impact"].k = "num"
                     /\ r["delta_injury_impact"].v # 0
                     /\ isna(r["margin"])

\* what the trainer writes over a season of MaxGames games, all played in
\* week 1, is past_outputs
PastOutputsAreTrainOutputs ==
    (TrainedOk /\ sched_file = train_sched([i \in 1..MaxGames |-> 1],
                                           [i \in 1..MaxGames |-> TRUE])) =>
        /\ margin_model = past_outputs("avg_epa_pass", FALSE).margin_model
        /\ total_model = past_outputs("avg_epa_pass", FALSE).total_model
        /\ importance = past_outputs("avg_epa_pass", FALSE).importance

\* the feature list of a run of the trainer is a past_feature_cols
PastFeatureColsAreTrainFeatureCols ==
    TrainedOk =>
        \E m \in {"avg_epa_pass", "avg_epa_run"}, inj \in BOOLEAN :
            /\ margin_model.fit_cols = past_feature_cols(m, inj)
            /\ inj = HasCol(model_table, "home_injury_impact")
            /\ HasCol(model_table, "delta_off_" \o m)

\* C11: when fewer than 100 rows have a known target the trainer fails
\* before it fits a fold or writes a model: a run that completes had at
\* least 100 such rows.
C11_TooFewSamplesIsFatal ==
    TrainedOk => Len(run.df_train) >= MIN_SAMPLES

\* C12: when the selected feature list is empty or shorter than the
\* minimum count the trainer raises and fits nothing: a run that completes
\* had at least the minimum count of features.
C12_TooFewFeaturesIsFatal ==
    TrainedOk => Len(run.feature_cols) >= MIN_FEATURES

\* C13: when margin or total_points is not a column of the model table,
\* every run of the trainer ends with an error that names the column,
\* has run no fold, and leaves the models and the importance file as
\* they were.
C13_MissingTargetIsFatal ==
    /\ []((run.script = "train" /\ exists(model_table)
              /\ missing_target(model_table) # "") =>
            /\ run.status = "KeyError"
            /\ run.key = missing_target(model_table)
            /\ "margin_folds" \notin DOMAIN run
            /\ "total_folds" \notin DOMAIN run)
    /\ [][(run'.script = "train" /\ run'.status = "KeyError") =>
            UNCHANGED <<margin_model, total_model, importance>>]_vars

\* a run that stopped on a table without total_points, the models of the
\* earlier run still in place
C13_Witness ==
    /\ run.script = "train"
    /\ run.status = "KeyError"
    /\ run.key = "total_points"
    /\ HasCol(model_table, "margin")
    /\ Len(model_table.rows) >= 3
    /\ margin_model = past_outputs("avg_epa_run", FALSE).margin_model
    /\ total_model = past_outputs("avg_epa_run", FALSE).total_model

\* step 4 has run for the n samples of run.n
cv_done ==
    /\ run.script = "train"
    /\ run.status \in {"cv", "ValueError"}
    /\ "n_folds" \in DOMAIN run

\* C14 as claimed: the number of folds the cross-validation runs depends
\* on n only, is 5 for 520 rows and 2 for 90 rows, lies in 2..5 for every
\* n and never decreases when n grows.
C14_FoldCountInRange ==
    cv_done =>
        /\ run.n_folds = cross_validate(run.n).n_folds
        /\ run.n = 520 => run.n_folds = 5
        /\ run.n = 90 => run.n_folds = 2
        /\ run.n_folds \in 2..5
        /\ \A m \in 0..run.n : cross_validate(m).n_folds <= run.n_folds

\* C14 amended: n_splits depends on n only, is 5 for 520 rows and 2 for 90
\* rows, lies in 2..5 for every n and never decreases when n grows; with
\* three samples or more the cross-validation runs exactly n_splits folds,
\* with fewer it raises ValueError and runs none.
C14_FoldCount ==
    cv_done =>
        /\ run.n_splits = n_splits_of(run.n)
        /\ run.n = 520 => run.n_splits = 5
        /\ run.n = 90 => run.n_splits = 2
        /\ run.n_splits \in 2..5
        /\ \A m \in 0..run.n : n_splits_of(m) <= run.n_splits
        /\ run.n >= 3 => (run.status = "cv" /\ run.n_folds = run.n_splits)
        /\ run.n < 3 => (run.status = "ValueError" /\ run.n_folds = 0)

\* the cross-validation of 520 samples has run its 5 folds
C14_Witness ==
    /\ cv_done
    /\ run.n = 520
    /\ run.status = "cv"
    /\ run.n_folds = 5

\* C15: a run of the trainer that fails has written none of its outputs:
\* the margin model, the total model and the importance file are what
\* they were before the run.
C15_TrainerIsAtomic ==
    [][(run'.script = "train" /\ run'.status # "ok") =>
          UNCHANGED <<margin_model, total_model, importance>>]_vars

\* the rows of the model table the predictor run of `run` scored
scored_rows ==
    SelectSeq(model_table.rows, LAMBDA r :
        r["season"] = run.SEASON /\ r["week"] = run.WEEK)

\* C16: every null or infinite cell of the predictor's feature matrix is
\* zero when the models are applied and every other cell is unchanged;
\* when at least one cell was replaced, the run's output has a warning
\* line that carries the number of replaced cells.
C16_ZeroFillIsLoggedWithCount ==
    PredictedOk =>
        /\ \A i \in DOMAIN run.X : \A j \in DOMAIN run.feature_cols :
              LET c == x_cell(scored_rows[i][run.feature_cols[j]])
              IN  run.X[i][j] = IF isna(c) THEN Num(0) ELSE c
        /\ nan_count(scored_rows, run.feature_cols) > 0 =>
              \E k \in DOMAIN run.log :
                  /\ run.log[k].text = "WARNING: Some features have NaN values"
                  /\ nan_count(scored_rows, run.feature_cols) \in Range(run.log[k].args)

\* the home margin the market line stands for: spread_line is read as a
\* home spread like model_home_spread, negative when the home team is
\* favored
market_home_margin(r) == Neg(r["spread_line"])

\* C17: in every prediction record with a market line the spread edge is
\* model_home_spread minus spread_line, and it is positive exactly when
\* the predicted home margin is larger than the home margin of the market
\* line.
C17_EdgeSign ==
    PredictedOk =>
        \A i \in DOMAIN predictions[<<run.SEASON, run.WEEK>>].rows :
            LET r == predictions[<<run.SEASON, run.WEEK>>].rows[i]
            IN  /\ r["edge_home_spread_pts"] =
                      CellSub(r["model_home_spread"], r["spread_line"])
                /\ (r["edge_home_spread_pts"].v > 0) <=>
                      (r["predicted_margin_home_minus_away"].v > market_home_margin(r).v)

\* C18: a predictor run that completes has written one record for every
\* row of the requested (season, week), record i carrying the season,
\* week, home_team and away_team of row i; a run for a week without rows
\* fails with ValueError, and a run that fails so leaves every prediction
\* file as it was.
C18_OneRecordPerRow ==
    /\ [](PredictedOk =>
            LET out == predictions[<<run.SEASON, run.WEEK>>]
            IN  /\ Len(out.rows) = Len(scored_rows)
                /\ \A i \in DOMAIN scored_rows :
                      /\ out.rows[i]["season"] = scored_rows[i]["season"]
                      /\ out.rows[i]["week"] = scored_rows[i]["week"]
                      /\ out.rows[i]["home_team"] = scored_rows[i]["home_team"]
                      /\ out.rows[i]["away_team"] = scored_rows[i]["away_team"])
    /\ []((run.script = "predict" /\ "SEASON" \in DOMAIN run /\ scored_rows = <<>>) =>
            run.status = "ValueError")
    /\ [][(run'.script = "predict" /\ run'.status = "ValueError") =>
            UNCHANGED predictions]_vars

\* a run over a week of two games: two records, in the order of the rows
C18_Witness ==
    /\ PredictedOk
    /\ Len(scored_rows) = 2
    /\ scored_rows[1]["home_team"] # scored_rows[2]["home_team"]
    /\ Len(predictions[<<run.SEASON, run.WEEK>>].rows) = 2
    /\ predictions[<<run.SEASON, run.WEEK>>].rows[2]["home_team"]
          = scored_rows[2]["home_team"]

\* the files a stage of the pipeline needs from the stage before it
ArtifactFiles == {"SCHED_FILE", "TEAMW_FILE", "MODEL_TABLE", "MARGIN_MODEL", "TOTAL_MODEL"}

\* C19: when the builder, the trainer or the predictor stops because a
\* file it needs is absent, its error names that file and the command
\* that produces it.
C19_MissingArtifactIsNamed ==
    (run.script \in {"build", "train", "predict"} /\ run.status = "FileNotFoundError") =>
        /\ run.names \in ArtifactFiles
        /\ run.run_cmd # ""

\* the week directory has a non-null value of the base for the team-week:
\* off_ bases come from the offense file and def_ bases from the defense
\* file, by team, season and week; injury_impact comes from the injuries
\* file, by team and week
has_source_value(dir, team, season, week, base) ==
    LET in_src(src, teamcol, col) ==
            \E i \in DOMAIN src.rows :
                /\ src.rows[i][teamcol] = team
                /\ src.rows[i]["season"] = season
                /\ src.rows[i]["week"] = week
                /\ col \in DOMAIN src.rows[i]
                /\ notna(src.rows[i][col])
    IN  IF base = "injury_impact"
        THEN /\ exists(dir.injuries)
             /\ \E i \in DOMAIN dir.injuries.rows :
                   /\ dir.injuries.rows[i]["team"] = team
                   /\ dir.injuries.rows[i]["week"] = week
                   /\ notna(dir.injuries.rows[i]["injury_impact_score"])
        ELSE IF startswith(base, "off_")
        THEN in_src(dir.offense, "offense_team", SubSeq(base, 5, Len(base)))
        ELSE in_src(dir.defense, "defense_team", SubSeq(base, 5, Len(base)))

\* C20: in the model table built from the bridged week directory, when a
\* team has no source value for a whitelisted base in the game's week,
\* the home_ (away_) value of that base and its delta_ are null.
C20_MissingNeverZero ==
    BuiltOk =>
        \A i \in DOMAIN model_table.rows : \A base \in Bases :
            LET r == model_table.rows[i]
            IN  HasCol(model_table, "delta_" \o base) =>
                  /\ ~has_source_value(week_dirs[1], r["home_team"], r["season"],
                                       r["week"], base)
                        => (isna(r["home_" \o base]) /\ isna(r["delta_" \o base]))
                  /\ ~has_source_value(week_dirs[1], r["away_team"], r["season"],
                                       r["week"], base)
                        => (isna(r["away_" \o base]) /\ isna(r["delta_" \o base]))

\* the spellings of a regular-season game_type
RegularTypes == {"REG", "REGULAR", "REGULAR_SEASON"}

same_week_value(r, team, c, v) ==
    LET recs == team_week_rows(team_week, team, r["season"], r["week"])
    IN  IF recs = {} THEN isna(v)
        ELSE \E k \in recs : v = team_week.rows[k][c]

Interval(lo, hi) == [i \in 1..(hi - lo + 1) |-> lo + i - 1]

\* C23: in the cross-validation of n time-sorted rows, the training set
\* of every fold is the rows 1..m for some m and its validation slice is
\* the non-empty run of rows that starts at m + 1; the validation slices
\* of two folds share no row; the training set of fold k + 1 is the
\* training set of fold k followed by the validation slice of fold k.
C23_ExpandingWindow ==
    (cv_done /\ run.status = "cv") =>
        /\ \A k \in DOMAIN run.folds :
              LET m == Len(run.folds[k].tr)
              IN  /\ m >= 1
                  /\ run.folds[k].tr = Interval(1, m)
                  /\ Len(run.folds[k].te) >= 1
                  /\ run.folds[k].te = Interval(m + 1, m + Len(run.folds[k].te))
                  /\ m + Len(run.folds[k].te) <= run.n
        /\ \A k \in DOMAIN run.folds : \A j \in DOMAIN run.folds :
              k # j => Range(run.folds[k].te) \cap Range(run.folds[j].te) = {}
        /\ \A k \in DOMAIN run.folds :
              k + 1 \in DOMAIN run.folds =>
                  run.folds[k + 1].tr = run.folds[k].tr \o run.folds[k].te

\* 520 rows in 5 folds: the first trains on rows 1..90 and validates on
\* the 86 rows after them, the last validates on the last 86 rows
C23_Witness ==
    /\ cv_done
    /\ run.n = 520
    /\ Len(run.folds) = 5
    /\ Len(run.folds[1].tr) = 90
    /\ run.folds[1].te = Interval(91, 176)
    /\ run.folds[5].te = Interval(435, 520)

\* the rows of the model table a training matrix is to hold: the target
\* is not null and every feature of the run is a finite number
clean_rows(target) ==
    {i \in DOMAIN model_table.rows :
        /\ notna(model_table.rows[i][target])
        /\ \A j \in DOMAIN run.feature_cols :
              model_table.rows[i][run.feature_cols[j]].k = "num"}

\* X holds exactly the games of clean_rows(target), each once, in
\* ascending (season, week)
is_clean_matrix(X, target) ==
    /\ Range(X) = {game_key(model_table.rows[i]) : i \in clean_rows(target)}
    /\ Len(X) = Cardinality(clean_rows(target))
    /\ \A i \in DOMAIN X : \A j \in DOMAIN X : i < j => ~earlier(X[j], X[i])

\* the run printed text with exactly these values
logged(text, args) ==
    \E k \in DOMAIN run.log : run.log[k].text = text /\ run.log[k].args = args

\* C24: the training matrix of each target holds exactly the rows with a
\* non-null target and finite, non-null features, in (season, week)
\* order; the run prints how many rows have a target, and, when rows with
\* a target were dropped for their features, how many.
C24_CleanRowsOnly ==
    (run.script = "train" /\ "X_margin" \in DOMAIN run) =>
        LET before == Len(model_table.rows)
            with_target == Cardinality({i \in DOMAIN model_table.rows :
                                          notna(model_table.rows[i]["margin"])})
        IN  /\ is_clean_matrix(run.X_margin, "margin")
            /\ is_clean_matrix(run.X_total, "total_points")
            /\ logged("{}/{} games with results (targets)", <<with_target, before>>)
            /\ with_target > Len(run.X_margin) =>
                  logged("Dropping {} rows with NaN (margin)",
                         <<with_target - Len(run.X_margin)>>)
            /\ with_target > Len(run.X_total) =>
                  logged("Dropping {} rows with NaN (total)",
                         <<with_target - Len(run.X_total)>>)

\* a run that trained on three games of a table that is not in week
\* order, after dropping a played game with an infinite feature
C24_Witness ==
    /\ TrainedOk
    /\ Len(run.X_margin) = 3
    /\ run.X_margin[1].week = 1 /\ run.X_margin[3].week = 2
    /\ model_table.rows[1]["week"] = 1 /\ model_table.rows[2]["week"] = 2
    /\ model_table.rows[3]["week"] = 1
    /\ \E i \in DOMAIN model_table.rows :
          /\ notna(model_table.rows[i]["margin"])
          /\ model_table.rows[i]["delta_off_avg_epa_pass"] = Inf(1)
    /\ logged("Dropping {} rows with NaN (margin)", <<1>>)

\* the rows that some fold trains or validates on
fold_rows(folds) ==
    UNION {Range(folds[k].tr) \cup Range(folds[k].te) : k \in DOMAIN folds}

\* model is the fit, with the arguments of the folds, of all the rows of
\* X, which are the rows the folds used
fit_on_all(model, params, X, folds) ==
    /\ model.params = params
    /\ model.rows = X
    /\ model.fit_cols = run.feature_cols
    /\ fold_rows(folds) = DOMAIN model.rows

\* C25: after a run of the trainer that completes, the stored model of
\* each target is the fit, with the arguments of that target's fold
\* models, of every row of its cleaned training set, the rows its folds
\* trained and validated on; and a run changes a stored model only when
\* all n_splits folds of both targets have run.
C25_FinalFitOnAllRows ==
    /\ [](TrainedOk =>
            /\ fit_on_all(margin_model, run.fold_params.margin,
                          run.X_margin, run.margin_folds)
            /\ fit_on_all(total_model, run.fold_params.total,
                          run.X_total, run.total_folds))
    /\ [][(run'.script = "train"
              /\ (margin_model' # margin_model \/ total_model' # total_model)) =>
            /\ "total_folds" \in DOMAIN run'
            /\ Len(run'.margin_folds) = run'.n_splits
            /\ Len(run'.total_folds) = run'.n_splits]_vars

\* a run that replaced the models of an earlier run by fits on four
\* games, cross-validated in two folds
C25_Witness ==
    /\ TrainedOk
    /\ Len(run.margin_folds) = 2
    /\ Len(margin_model.rows) = 4
    /\ Len(total_model.rows) = 4
    /\ margin_model.fit_cols # past_outputs("avg_epa_run", FALSE).margin_model.fit_cols

\* C26: in every prediction record predicted_home_score is half of
\* predicted_total + predicted_margin and predicted_away_score is half of
\* predicted_total - predicted_margin, so the two scores add up to the
\* total and differ by the margin.  (The scores are counted in halves.)
C26_ImpliedScores ==
    PredictedOk =>
        \A i \in DOMAIN predictions[<<run.SEASON, run.WEEK>>].rows :
            LET r == predictions[<<run.SEASON, run.WEEK>>].rows[i]
                m == r["predicted_margin_home_minus_away"]
                t == r["predicted_total_points"]
                home == r["predicted_home_score"]
                away == r["predicted_away_score"]
            IN  /\ m.k = "num" /\ t.k = "num"
                /\ home.k = "half" /\ away.k = "half"
                /\ home.v = t.v + m.v
                /\ away.v = t.v - m.v
                /\ home.v + away.v = 2 * t.v
                /\ home.v - away.v = 2 * m.v

\* a week with a predicted home win by 4 and a predicted home loss by 3,
\* both with 41 points: 22.5 to 18.5 and 19 to 22
C26_Witness ==
    /\ PredictedOk
    /\ \E i \in DOMAIN predictions[<<run.SEASON, run.WEEK>>].rows :
          LET r == predictions[<<run.SEASON, run.WEEK>>].rows[i]
          IN  /\ r["predicted_margin_home_minus_away"] = Num(4)
              /\ r["predicted_total_points"] = Num(41)
              /\ r["predicted_home_score"].v = 45
              /\ r["predicted_away_score"].v = 37
    /\ \E i \in DOMAIN predictions[<<run.SEASON, run.WEEK>>].rows :
          LET r == predictions[<<run.SEASON, run.WEEK>>].rows[i]
          IN  /\ r["predicted_margin_home_minus_away"] = Num(0 - 3)
              /\ r["predicted_home_score"].v = 38
              /\ r["predicted_away_score"].v = 44

\* a whitelisted column of the team-week table holds text
text_feature ==
    \E c \in Bases \cap Range(team_week.cols) :
        \E k \in DOMAIN team_week.rows : team_week.rows[k][c].k = "str"

\* C27: a run of the builder over a team-week table with text in a
\* whitelisted column completes, and every delta with a text operand is
\* null.
C27_NonNumericDoesNotRaise ==
    (run.script = "build" /\ "SEASON" \in DOMAIN run /\ text_feature) =>
        /\ run.status = "ok"
        /\ \A i \in DOMAIN model_table.rows : \A base \in Bases :
              (/\ HasCol(model_table, "delta_" \o base)
               /\ \/ model_table.rows[i]["home_" \o base].k = "str"
                  \/ model_table.rows[i]["away_" \o base].k = "str")
                  => isna(model_table.rows[i]["delta_" \o base])

\* the number of columns of t with this name
col_count(t, name) == Cardinality({i \in DOMAIN t.cols : t.cols[i] = name})

\* str.endswith
endswith(s, p) == Len(s) >= Len(p) /\ SubSeq(s, Len(s) - Len(p) + 1, Len(s)) = p

\* C28: the model table has exactly one column home_c and one column
\* away_c for every feature c of the team-week table, holding the value
\* of c of the home team and of the away team; the schedule columns are
\* its first columns, under their names and with the values of the
\* schedule row, and no column carries a merge suffix.
C28_NoColumnCollision ==
    BuiltOk =>
        /\ \A c \in team_week_features(team_week) :
              /\ col_count(model_table, "home_" \o c) = 1
              /\ col_count(model_table, "away_" \o c) = 1
        /\ \A i \in DOMAIN model_table.cols :
              /\ ~endswith(model_table.cols[i], "_x")
              /\ ~endswith(model_table.cols[i], "_y")
              /\ col_count(model_table, model_table.cols[i]) = 1
        /\ SubSeq(model_table.cols, 1, Len(sched_file.cols)) = sched_file.cols
        /\ Len(model_table.rows) = Len(kept_games(sched_file, run.SEASON))
        /\ \A i \in DOMAIN model_table.rows :
              LET r == model_table.rows[i]
              IN  /\ \A c \in Range(sched_file.cols) :
                        r[c] = kept_games(sched_file, run.SEASON)[i][c]
                  /\ \A c \in team_week_features(team_week) :
                        /\ same_week_value(r, r["home_team"], c, r["home_" \o c])
                        /\ same_week_value(r, r["away_team"], c, r["away_" \o c])

\* a table built from a schedule with home_score and away_score and a
\* team-week table with the injury columns: five features on each side,
\* the home team's and the away team's values side by side
C28_Witness ==
    /\ BuiltOk
    /\ Cardinality(team_week_features(team_week)) = 5
    /\ HasCol(model_table, "home_score")
    /\ HasCol(model_table, "home_injury_impact")
    /\ HasCol(model_table, "away_players_out")
    /\ \E i \in DOMAIN model_table.rows :
          /\ model_table.rows[i]["home_def_avg_epa_per_play"].k = "num"
          /\ model_table.rows[i]["away_def_avg_epa_per_play"].k = "num"
          /\ model_table.rows[i]["home_def_avg_epa_per_play"]
                # model_table.rows[i]["away_def_avg_epa_per_play"]

\* C29: in every run of the trainer over a table of the builder the
\* total training set is the margin training set, row for row; the
\* cross-validation of the total model never raises after the margin
\* model's has run, and in a run that completes it has the n_splits folds
\* of the margin model, with the same rows in each.
C29_SameTrainingRows ==
    (run.script = "train" /\ "X_margin" \in DOMAIN run) =>
        /\ run.X_total = run.X_margin
        /\ "margin_folds" \in DOMAIN run => "total_folds" \in DOMAIN run
        /\ TrainedOk =>
              /\ run.total_folds = run.margin_folds
              /\ Len(run.total_folds) = run.n_splits
              /\ run.n_splits = n_splits_of(Len(run.X_total))

\* a run that completed over a table with a drawn game, a game with one
\* score and three games in each training set
C29_Witness ==
    /\ TrainedOk
    /\ Len(run.X_margin) = 3
    /\ Len(run.X_total) = 3
    /\ \E i \in DOMAIN model_table.rows :
          /\ model_table.rows[i]["margin"] = Num(0)
          /\ model_table.rows[i]["total_points"] = Num(2)
    /\ \E i \in DOMAIN model_table.rows :
          /\ notna(model_table.rows[i]["away_score"])
          /\ isna(model_table.rows[i]["home_score"])
          /\ isna(model_table.rows[i]["total_points"])

\* the seasons of the rows of a table
seasons_of(t) == {t.rows[i]["season"] : i \in DOMAIN t.rows}

\* C30: a run of the builder that completes leaves a model table whose
\* rows are the retained schedule games of the season it was given and
\* of no other, whatever the table held before; no other script changes
\* the table, so it never holds two seasons; and a run of the predictor
\* for a season the table has no game of ends with ValueError and leaves
\* every prediction file as it was.
C30_OneSeasonTable ==
    /\ [](exists(model_table) => Cardinality(seasons_of(model_table)) <= 1)
    /\ [][(run'.script = "build" /\ run'.status = "ok") =>
            /\ seasons_of(model_table') \subseteq {run'.SEASON}
            /\ Len(model_table'.rows) = Len(kept_games(sched_file, run'.SEASON))]_vars
    /\ [][~(run'.script = "build" /\ run'.status = "ok") =>
            model_table' = model_table]_vars
    /\ [][(/\ run'.script = "predict"
           /\ "SEASON" \in DOMAIN run'
           /\ run'.SEASON \notin seasons_of(model_table)) =>
            /\ run'.status = "ValueError"
            /\ run'.games = 0
            /\ predictions' = predictions]_vars

\* the table was rebuilt for 2024 after a week of 2025 had been
\* predicted from it; the predictor, run for 2025 again, found no game
C30_Witness ==
    /\ run.script = "predict"
    /\ run.status = "ValueError"
    /\ run.SEASON = 2025
    /\ run.games = 0
    /\ seasons_of(model_table) = {2024}
    /\ exists(predictions[<<2025, 1>>])
    /\ \E j \in DOMAIN sched_file.rows :
          sched_file.rows[j]["season"] = 2025 /\ sched_file.rows[j]["week"] = run.WEEK

====
